---------------------------- MODULE Spec2Model ----------------------------
(***************************************************************************)
(* Tic Tac Toe single-page application (frontend/src/App.js): the pure     *)
(* evaluators calculateWinner and deriveStatus, the App component's state  *)
(* (game, apiStatus, saveDebounceRef), its two event handlers, its two     *)
(* effects (load on render, debounced save on render) and the optional     *)
(* backend client useOptionalGameApi.                                      *)
(*                                                                         *)
(* The field updatedAt of the game object is a wall-clock timestamp that   *)
(* no code of the component reads; it is left out of the game record.      *)
(***************************************************************************)
EXTENDS Integers, Sequences, FiniteSets, TLC

(***************************************************************************)
(* Bounds of the model.                                                    *)
(***************************************************************************)
\* Under Spec the player clicks the cells 0..MaxCell (SpecLocal uses all 9).
MaxCell == 3
\* Cancelled load requests still travelling that the model keeps track of.
MaxStaleLoads == 1
\* Save requests that may be in flight at the same time.
MaxInflightSaves == 2

(***************************************************************************)
(* Values.                                                                 *)
(***************************************************************************)
\* JavaScript null in a cell or in the winner field.
Null == "null"

Marks == {"X", "O"}

Cells == 0..8

SyncCells == 0..MaxCell

\* JavaScript truthiness of a cell or winner value (null | "X" | "O").
Truthy(v) == v # Null

\* JSON values of a response body, tagged by their type; JUndef is a missing
\* field of an object.
JNull == [t |-> "null"]

JUndef == [t |-> "undef"]

JStr(s) == [t |-> "str", v |-> s]

JNum(n) == [t |-> "num", v |-> n]

JBool(b) == [t |-> "bool", v |-> b]

JArr(s) == [t |-> "arr", v |-> s]

JObj(board, next_player, winner, is_draw, moves) ==
  [t |-> "obj", board |-> board, next_player |-> next_player,
   winner |-> winner, is_draw |-> is_draw, moves |-> moves]

\* JavaScript truthiness of a JSON value.
JTruthy(j) ==
  CASE j.t = "null" -> FALSE
    [] j.t = "undef" -> FALSE
    [] j.t = "bool" -> j.v
    [] j.t = "num" -> j.v # 0
    [] j.t = "str" -> j.v # ""
    [] OTHER -> TRUE

\* x == null (null or undefined), the test of the ?? operator.
JNullish(j) == j.t \in {"null", "undef"}

\* A JSON cell (null or a string) as the value the board holds.
JCell(j) == IF j.t = "str" THEN j.v ELSE Null

(***************************************************************************)
(* createEmptyGameState                                                    *)
(***************************************************************************)
createEmptyGameState ==
  [board |-> [i \in Cells |-> Null],
   nextPlayer |-> "X",
   status |-> "Next player: X",
   winner |-> Null,
   isDraw |-> FALSE,
   moves |-> 0]

(***************************************************************************)
(* calculateWinner: the eight lines in the order the loop visits them.     *)
(***************************************************************************)

\* Mutant: the anti-diagonal is missing from the table.
linesMissingDiagonal ==
  << <<0, 1, 2>>, <<3, 4, 5>>, <<6, 7, 8>>,
     <<0, 3, 6>>, <<1, 4, 7>>, <<2, 5, 8>>,
     <<0, 4, 8>> >>

lines ==
  << <<0, 1, 2>>, <<3, 4, 5>>, <<6, 7, 8>>,
     <<0, 3, 6>>, <<1, 4, 7>>, <<2, 5, 8>>,
     <<0, 4, 8>>, <<2, 4, 6>> >>

RECURSIVE calculateWinnerFrom(_, _)
calculateWinnerFrom(board, k) ==
  IF k > Len(lines) THEN Null
  ELSE LET a == lines[k][1]
           b == lines[k][2]
           c == lines[k][3]
           v == board[a]
       IN  IF Truthy(v) /\ v = board[b] /\ v = board[c]
           THEN v
           ELSE calculateWinnerFrom(board, k + 1)


\* Mutant: the loop starts at the second line and never tests the top row.
calculateWinnerSkipsTopRow(board) == calculateWinnerFrom(board, 2)

calculateWinner(board) == calculateWinnerFrom(board, 1)

(***************************************************************************)
(* deriveStatus                                                            *)
(***************************************************************************)

\* Mutant: a full board is a draw whether or not it holds a winning line.
deriveStatusDrawFirst(board, nextPlayer) ==
  LET winner == calculateWinner(board)
      moves == Cardinality({i \in Cells : Truthy(board[i])})
  IN  IF moves = 9
      THEN [winner |-> Null, isDraw |-> TRUE, moves |-> moves,
            status |-> "Draw"]
      ELSE IF Truthy(winner)
      THEN [winner |-> winner, isDraw |-> FALSE, moves |-> moves,
            status |-> "Winner: " \o winner]
      ELSE [winner |-> Null, isDraw |-> FALSE, moves |-> moves,
            status |-> "Next player: " \o nextPlayer]

deriveStatus(board, nextPlayer) ==
  LET winner == calculateWinner(board)
      moves == Cardinality({i \in Cells : Truthy(board[i])})
      isDraw == ~Truthy(winner) /\ moves = 9
  IN  IF Truthy(winner)
      THEN [winner |-> winner, isDraw |-> FALSE, moves |-> moves,
            status |-> "Winner: " \o winner]
      ELSE IF isDraw
      THEN [winner |-> Null, isDraw |-> TRUE, moves |-> moves,
            status |-> "Draw"]
      ELSE [winner |-> Null, isDraw |-> FALSE, moves |-> moves,
            status |-> "Next player: " \o nextPlayer]


(***************************************************************************)
(* useOptionalGameApi: responses of the backend and the two calls.         *)
(***************************************************************************)
\* fetch rejects (network error).
NetError == [net |-> "error"]

\* fetch resolves with a response: res.ok and the JSON of its body.
Http(ok, body) == [net |-> "response", ok |-> ok, body |-> body]

\* A JSON array of cells from a sequence of null | "X" | "O".
JBoard(s) == JArr([k \in 1..Len(s) |-> IF s[k] = Null THEN JNull ELSE JStr(s[k])])

\* The bodies GET /api/games/latest answers with in the model.
BodyNull == JNull

BodyNoBoard == JObj(JUndef, JStr("X"), JNull, JBool(FALSE), JNum(0))

BodyShortBoard ==
  JObj(JBoard(<<"X", Null, Null>>), JStr("O"), JNull, JBool(FALSE), JNum(1))

\* A game as this client saves it: X to move, X completes the top row at 0.
BodyMidGame ==
  JObj(JBoard(<<Null, "X", "X", Null, "O", "O", Null, Null, Null>>),
       JStr("X"), JNull, JBool(FALSE), JNum(4))

\* Eight cells filled, X to move, cell 0 left: filling it is a draw.
BodyNearDraw ==
  JObj(JBoard(<<Null, "O", "X", "X", "X", "O", "O", "X", "O">>),
       JStr("X"), JNull, JBool(FALSE), JNum(8))

\* Only the board and the turn are present.
BodyBoardOnly ==
  JObj(JBoard(<<"X", Null, Null, Null, Null, Null, Null, Null, Null>>),
       JStr("O"), JUndef, JUndef, JUndef)

\* Stored fields that disagree with the stored board.
BodyInconsistent ==
  JObj(JBoard(<<"O", Null, Null, Null, Null, Null, Null, Null, Null>>),
       JUndef, JStr("X"), JBool(TRUE), JNum(7))

LoadBodies ==
  {BodyNull, BodyNoBoard, BodyShortBoard, BodyMidGame, BodyNearDraw,
   BodyBoardOnly, BodyInconsistent}

\* A network error, non-ok responses (one of them with a body that parses as
\* a game) and ok responses.
LoadResponses ==
  {NetError, Http(FALSE, JNull), Http(FALSE, BodyMidGame)}
    \cup {Http(TRUE, b) : b \in LoadBodies}

\* The saved object POST /api/games answers with.
BodySaved == [t |-> "obj"]

SaveResponses == {NetError, Http(FALSE, JNull), Http(TRUE, BodySaved), Http(TRUE, JNull)}

\* loadLatest: null when disabled, on a network error or a non-ok response.

\* Mutant: res.ok is not tested.
loadLatestIgnoresOk(en, resp) ==
  IF ~en THEN JNull
  ELSE IF resp.net = "error" THEN JNull
  ELSE resp.body

loadLatest(en, resp) ==
  IF ~en THEN JNull
  ELSE IF resp.net = "error" THEN JNull
  ELSE IF ~resp.ok THEN JNull
  ELSE resp.body

\* The JSON body save(state) posts.
saveBody(state) ==
  [board |-> state.board, next_player |-> state.nextPlayer,
   winner |-> state.winner, is_draw |-> state.isDraw, moves |-> state.moves]

\* save: null when disabled, on a network error or a non-ok response.
save(en, resp) ==
  IF ~en THEN JNull
  ELSE IF resp.net = "error" THEN JNull
  ELSE IF ~resp.ok THEN JNull
  ELSE resp.body

(***************************************************************************)
(* State of the App component.                                             *)
(***************************************************************************)
VARIABLES
  enabled,      \* api.enabled: a base URL is configured
  mounted,      \* the component is mounted
  game,         \* useState game
  apiStatus,    \* useState apiStatus
  liveLoad,     \* the load of the latest effect run is in flight (cancelled = false)
  staleLoads,   \* loads in flight whose effect run was cleaned up (cancelled = true)
  timerArmed,   \* the timeout in saveDebounceRef.current has not fired or been cleared
  timerGame,    \* the game the timeout's callback closes over
  saves,        \* saves in flight, oldest first; latest marks the last one issued
  lastOp,       \* the operation of the last step and what it was given
  saveState,    \* "initial": setGame was never called; "dirty": it was called
                \* since the last save was issued; "clean": a save was issued
                \* since its last call
  fn            \* a call of the pure evaluators: arguments and results

vars ==
  <<enabled, mounted, game, apiStatus, liveLoad, staleLoads, timerArmed,
    timerGame, saves, lastOp, saveState, fn>>

appVars ==
  <<enabled, mounted, game, apiStatus, liveLoad, staleLoads, timerArmed,
    timerGame, saves, lastOp, saveState>>

Min(a, b) == IF a < b THEN a ELSE b

NoCall ==
  [board |-> createEmptyGameState.board, nextPlayer |-> "X", done |-> FALSE,
   winner |-> Null, derived |-> deriveStatus(createEmptyGameState.board, "X")]

\* The component after mounting: the initial render and its two effects.
\* The ellipsis character of "Connecting…" and "Saving…" is written "...".
InitApp ==
  /\ enabled \in BOOLEAN
  /\ mounted = TRUE
  /\ game = createEmptyGameState
  /\ apiStatus = IF enabled THEN "Connecting..." ELSE "Offline"
  /\ liveLoad = enabled
  /\ staleLoads = 0
  /\ timerArmed = enabled
  /\ timerGame = game
  /\ saves = <<>>
  /\ lastOp = [kind |-> "mount"]
  /\ saveState = "initial"

Init ==
  /\ InitApp
  /\ fn = NoCall

(***************************************************************************)
(* The two effects run after every committed render: api is a new object   *)
(* on each render, so [api] and [api, game] differ from the last render's  *)
(* dependencies every time.  The previous run is cleaned up first          *)
(* (cancelled = true; clearTimeout), then run() starts a new load and the  *)
(* save effect arms a new timeout closing over the rendered game.          *)
(* A cancelled load's response is discarded, so of the cancelled loads     *)
(* only MaxStaleLoads are kept.                                            *)
(***************************************************************************)

\* Mutant: the effects do not test api.enabled.
EffectsWhenDisabled(g, pending) ==
  /\ liveLoad' = TRUE
  /\ staleLoads' = IF pending THEN Min(staleLoads + 1, MaxStaleLoads)
                   ELSE staleLoads
  /\ timerArmed' = TRUE
  /\ timerGame' = g

Effects(g, pending) ==
  IF enabled
  THEN /\ liveLoad' = TRUE
       /\ staleLoads' = IF pending THEN Min(staleLoads + 1, MaxStaleLoads)
                        ELSE staleLoads
       /\ timerArmed' = TRUE
       /\ timerGame' = g
  ELSE UNCHANGED <<liveLoad, staleLoads, timerArmed, timerGame>>

\* setApiStatus(s) alone: React renders again only if the state changed.
\* pending: the load of the latest effect run is still in flight.
SetApiStatus(s, pending) ==
  /\ apiStatus' = s
  /\ IF s # apiStatus
     THEN Effects(game, pending)
     ELSE /\ liveLoad' = pending
          /\ UNCHANGED <<staleLoads, timerArmed, timerGame>>

(***************************************************************************)
(* handleSquareClick                                                       *)
(***************************************************************************)

\* Mutant: no move is taken while a save is being made.
canPlayUnlessSaving(g) == ~Truthy(g.winner) /\ ~g.isDraw /\ apiStatus # "Saving..."

canPlay(g) == ~Truthy(g.winner) /\ ~g.isDraw

\* The early returns of handleSquareClick.

\* Mutant: the occupied-cell test is missing.
moveRejectedOnlyWhenOver(g, index) == ~canPlay(g)


\* Mutant: the canPlay test is missing.
moveRejectedOnlyWhenOccupied(g, index) == Truthy(g.board[index])

moveRejected(g, index) == ~canPlay(g) \/ Truthy(g.board[index])

\* The object handleSquareClick passes to setGame.

\* Mutant: the status is derived before the turn is flipped.
moveResultStaleTurn(g, index) ==
  LET nextBoard == [g.board EXCEPT ![index] = g.nextPlayer]
      nextPlayer == IF g.nextPlayer = "X" THEN "O" ELSE "X"
      derived == deriveStatus(nextBoard, g.nextPlayer)
  IN  [board |-> nextBoard,
       nextPlayer |-> nextPlayer,
       status |-> derived.status,
       winner |-> derived.winner,
       isDraw |-> derived.isDraw,
       moves |-> derived.moves]


\* Mutant: the turn is not flipped.
moveResultKeepsTurn(g, index) ==
  LET nextBoard == [g.board EXCEPT ![index] = g.nextPlayer]
      nextPlayer == g.nextPlayer
      derived == deriveStatus(nextBoard, nextPlayer)
  IN  [board |-> nextBoard,
       nextPlayer |-> nextPlayer,
       status |-> derived.status,
       winner |-> derived.winner,
       isDraw |-> derived.isDraw,
       moves |-> derived.moves]

moveResult(g, index) ==
  LET nextBoard == [g.board EXCEPT ![index] = g.nextPlayer]
      nextPlayer == IF g.nextPlayer = "X" THEN "O" ELSE "X"
      derived == deriveStatus(nextBoard, nextPlayer)
  IN  [board |-> nextBoard,
       nextPlayer |-> nextPlayer,
       status |-> derived.status,
       winner |-> derived.winner,
       isDraw |-> derived.isDraw,
       moves |-> derived.moves]

handleSquareClick(index) ==
  /\ mounted
  /\ IF moveRejected(game, index)
     THEN /\ lastOp' = [kind |-> "click", index |-> index, accepted |-> FALSE]
          /\ UNCHANGED <<game, apiStatus, liveLoad, staleLoads, timerArmed,
                         timerGame, saveState>>
     ELSE /\ game' = moveResult(game, index)
          /\ lastOp' = [kind |-> "click", index |-> index, accepted |-> TRUE]
          /\ saveState' = "dirty"
          /\ Effects(game', liveLoad)
          /\ UNCHANGED apiStatus
  /\ UNCHANGED <<enabled, mounted, saves, fn>>

(***************************************************************************)
(* handleReset: setGame of a new object always renders again.              *)
(***************************************************************************)

\* Mutant: the board is cleared but the turn is kept.
handleResetKeepsTurn ==
  /\ mounted
  /\ game' = [createEmptyGameState EXCEPT !.nextPlayer = game.nextPlayer]
  /\ lastOp' = [kind |-> "reset"]
  /\ saveState' = "dirty"
  /\ Effects(game', liveLoad)
  /\ UNCHANGED <<enabled, mounted, apiStatus, saves, fn>>

handleReset ==
  /\ mounted
  /\ game' = createEmptyGameState
  /\ lastOp' = [kind |-> "reset"]
  /\ saveState' = "dirty"
  /\ Effects(game', liveLoad)
  /\ UNCHANGED <<enabled, mounted, apiStatus, saves, fn>>

(***************************************************************************)
(* Load effect: the continuation of run() after await api.loadLatest().    *)
(***************************************************************************)
\* The test of line 154 on the loaded value.
loadedIsGame(loaded) ==
  /\ JTruthy(loaded)
  /\ loaded.board.t = "arr"
  /\ Len(loaded.board.v) = 9

\* The object the load effect passes to setGame.
loadedGame(loaded) ==
  LET nextPlayer == IF loaded.next_player = JStr("O") THEN "O" ELSE "X"
      board == [i \in Cells |-> JCell(loaded.board.v[i + 1])]
      derived == deriveStatus(board, nextPlayer)
  IN  [board |-> board,
       nextPlayer |-> nextPlayer,
       status |-> derived.status,
       winner |-> IF JNullish(loaded.winner) THEN derived.winner
                  ELSE loaded.winner.v,
       isDraw |-> IF JNullish(loaded.is_draw) THEN derived.isDraw
                  ELSE JTruthy(loaded.is_draw),
       moves |-> IF loaded.moves.t = "num" THEN loaded.moves.v
                 ELSE derived.moves]

\* The response fails: a network error or a non-ok response.
Failed(resp) == resp.net = "error" \/ ~resp.ok

\* The response to the load of the latest effect run arrives.  setGame and
\* setApiStatus of the first branch are committed in one render; setGame of
\* a new object always renders again.
LoadResolve(resp) ==
  /\ liveLoad
  /\ LET loaded == loadLatest(enabled, resp)
     IN  /\ IF loadedIsGame(loaded)
            THEN /\ game' = loadedGame(loaded)
                 /\ apiStatus' = "Synced"
                 /\ saveState' = "dirty"
                 /\ Effects(game', FALSE)
            ELSE /\ game' = game
                 /\ SetApiStatus("Online (no saved game)", FALSE)
                 /\ UNCHANGED saveState
         /\ lastOp' = [kind |-> "load", failed |-> Failed(resp),
                       isNull |-> (loaded = JNull),
                       applied |-> loadedIsGame(loaded)]
  /\ UNCHANGED <<enabled, mounted, saves, fn>>

\* The response to a load whose effect run was cleaned up: line 152 returns.
StaleLoadResolve(resp) ==
  /\ staleLoads > 0
  /\ staleLoads' = staleLoads - 1
  /\ lastOp' = [kind |-> "staleLoad", failed |-> Failed(resp),
                 isGame |-> loadedIsGame(loadLatest(enabled, resp))]
  /\ UNCHANGED <<enabled, mounted, game, apiStatus, liveLoad, timerArmed,
                 timerGame, saves, saveState, fn>>

(***************************************************************************)
(* Save effect: the timeout callback up to its await, and its continuation.*)
(***************************************************************************)
TimerFire ==
  /\ timerArmed
  /\ Len(saves) < MaxInflightSaves
  /\ saves' = Append([k \in 1..Len(saves) |-> [latest |-> FALSE]],
                     [latest |-> TRUE])
  /\ lastOp' = [kind |-> "timer", body |-> saveBody(timerGame)]
  /\ saveState' = IF saveState = "initial" THEN "initial" ELSE "clean"
  /\ apiStatus' = "Saving..."
  /\ IF apiStatus # "Saving..."
     THEN Effects(game, liveLoad)
     ELSE /\ timerArmed' = FALSE
          /\ UNCHANGED <<liveLoad, staleLoads, timerGame>>
  /\ UNCHANGED <<enabled, mounted, game, fn>>

\* The status the callback sets from the value save returned.

\* Mutant: the callback reports "Synced" whatever save returned.
savedStatusAlwaysSynced(saved) == "Synced"

savedStatus(saved) == IF JTruthy(saved) THEN "Synced" ELSE "Offline"

\* The response to the k-th save in flight arrives.  After unmounting React
\* drops the state update.
SaveResolve(k, resp) ==
  /\ k \in 1..Len(saves)
  /\ LET saved == save(enabled, resp)
     IN  /\ IF mounted
            THEN SetApiStatus(savedStatus(saved), liveLoad)
            ELSE UNCHANGED <<apiStatus, liveLoad, staleLoads, timerArmed, timerGame>>
         /\ lastOp' = [kind |-> "saved", failed |-> Failed(resp),
                       ok |-> JTruthy(saved), latest |-> saves[k].latest]
  /\ saves' = [j \in 1..(Len(saves) - 1) |-> IF j < k THEN saves[j] ELSE saves[j + 1]]
  /\ UNCHANGED <<enabled, mounted, game, saveState, fn>>

(***************************************************************************)
(* Unmount: the cleanups of both effects.                                  *)
(***************************************************************************)

\* Mutant: the cleanup of the save effect does not clear the timeout.
UnmountKeepsTimer ==
  /\ mounted
  /\ mounted' = FALSE
  /\ liveLoad' = FALSE
  /\ staleLoads' = IF liveLoad THEN Min(staleLoads + 1, MaxStaleLoads) ELSE staleLoads
  /\ lastOp' = [kind |-> "unmount"]
  /\ UNCHANGED <<enabled, game, apiStatus, timerArmed, timerGame, saves,
                 saveState, fn>>

Unmount ==
  /\ mounted
  /\ mounted' = FALSE
  /\ liveLoad' = FALSE
  /\ staleLoads' = IF liveLoad THEN Min(staleLoads + 1, MaxStaleLoads) ELSE staleLoads
  /\ timerArmed' = FALSE
  /\ lastOp' = [kind |-> "unmount"]
  /\ UNCHANGED <<enabled, game, apiStatus, timerGame, saves, saveState, fn>>

(***************************************************************************)
(* Specifications.                                                         *)
(***************************************************************************)
\* The application with or without a backend; the player clicks SyncCells.
Next ==
  \/ \E i \in SyncCells : handleSquareClick(i)
  \/ handleReset
  \/ \E r \in LoadResponses : LoadResolve(r)
  \/ \E r \in LoadResponses : StaleLoadResolve(r)
  \/ TimerFire
  \/ \E k \in 1..MaxInflightSaves, r \in SaveResponses : SaveResolve(k, r)
  \/ Unmount

Spec == Init /\ [][Next]_vars

\* Local play on the whole board, no backend configured.
InitLocal == Init /\ ~enabled

NextLocal ==
  \/ \E i \in Cells : handleSquareClick(i)
  \/ handleReset
  \/ Unmount

SpecLocal == InitLocal /\ [][NextLocal]_vars

\* The pure evaluators applied to every board over {null, "X", "O"}.
Evaluate ==
  /\ ~fn.done
  /\ fn' = [fn EXCEPT !.done = TRUE,
                      !.winner = calculateWinner(fn.board),
                      !.derived = deriveStatus(fn.board, fn.nextPlayer)]
  /\ UNCHANGED appVars

InitPure ==
  /\ InitApp
  /\ ~enabled
  /\ fn \in {[NoCall EXCEPT !.board = b, !.nextPlayer = p] :
               b \in [Cells -> {Null} \cup Marks], p \in Marks}

NextPure == Evaluate

SpecPure == InitPure /\ [][NextPure]_vars


(***************************************************************************)
(* Properties.                                                             *)
(***************************************************************************)
\* The step is a call of handleSquareClick(i).
Clicked(i) == lastOp'.kind = "click" /\ lastOp'.index = i

\* The game has concluded: winner set or isDraw true.
Concluded(g) == Truthy(g.winner) \/ g.isDraw

\* The eight lines, from the geometry of the board: rows, columns, diagonals.
BoardLines ==
  [k \in 1..8 |->
     IF k <= 3 THEN <<3 * (k - 1), 3 * (k - 1) + 1, 3 * (k - 1) + 2>>
     ELSE IF k <= 6 THEN <<k - 4, k - 1, k + 2>>
     ELSE IF k = 7 THEN <<0, 4, 8>>
     ELSE <<2, 4, 6>>]

\* Line k of the board holds three marks m.
Complete(board, k, m) == \A j \in 1..3 : board[BoardLines[k][j]] = m

HasLine(board, m) == \E k \in 1..8 : Complete(board, k, m)

AnyLine(board) == \E m \in Marks : HasLine(board, m)

Full(board) == \A i \in Cells : board[i] \in Marks

Filled(board) == Cardinality({i \in Cells : board[i] \in Marks})

\* C1: a click on an occupied cell, or on any cell of a concluded game,
\* leaves the whole game state (board, nextPlayer, winner, isDraw, moves,
\* status) as it was.
C1_RejectedClickChangesNothing ==
  [][\A i \in Cells :
       (Clicked(i) /\ (game.board[i] \in Marks \/ Concluded(game)))
         => game' = game]_vars

\* A click on an empty cell of a game that is won was ignored.
C1_Witness ==
  /\ lastOp.kind = "click"
  /\ ~lastOp.accepted
  /\ game.board[lastOp.index] = Null
  /\ game.winner \in Marks

\* A click on an occupied cell of a running game was ignored.
C1_WitnessOccupied ==
  /\ lastOp.kind = "click"
  /\ ~lastOp.accepted
  /\ game.board[lastOp.index] \in Marks
  /\ ~Concluded(game)

\* A click on a cell of a drawn game was ignored.
C1_WitnessDraw ==
  /\ lastOp.kind = "click"
  /\ ~lastOp.accepted
  /\ game.isDraw
  /\ game.winner = Null

\* C2: a click on an empty cell of a running game puts the mover's mark in
\* that cell, changes no other cell, flips the turn, and sets winner, isDraw,
\* moves and status to deriveStatus of the new board and the new turn.
C2_ValidMove ==
  [][\A i \in Cells :
       (Clicked(i) /\ game.board[i] = Null /\ ~Concluded(game))
         => /\ game'.board[i] = game.nextPlayer
            /\ \A j \in Cells \ {i} : game'.board[j] = game.board[j]
            /\ game'.nextPlayer = (IF game.nextPlayer = "X" THEN "O" ELSE "X")
            /\ game'.nextPlayer # game.nextPlayer
            /\ LET d == deriveStatus(game'.board, game'.nextPlayer)
               IN  /\ game'.winner = d.winner
                   /\ game'.isDraw = d.isDraw
                   /\ game'.moves = d.moves
                   /\ game'.status = d.status]_vars

\* A move was accepted and the game goes on with the other player.
C2_Witness ==
  /\ lastOp.kind = "click"
  /\ lastOp.accepted
  /\ game.board[lastOp.index] \in Marks
  /\ game.status = "Next player: " \o game.nextPlayer

\* C3: winner and isDraw are never both set, winner is the mark of a
\* complete line of the board (none without one), and isDraw holds exactly
\* when there is no winner and the board is full.
C3_WinnerAndDrawDerivedFromBoard ==
  /\ ~(Truthy(game.winner) /\ game.isDraw)
  /\ game.winner = calculateWinner(game.board)
  /\ game.isDraw = (~AnyLine(game.board) /\ Full(game.board))

\* C4: moves is the number of non-empty cells of the board.
C4_MovesCountsFilledCells == game.moves = Filled(game.board)

\* C5 as stated: whenever some line holds three marks m the evaluator
\* returns m, and without a complete line it returns none.
C5_AnyCompleteLineIsReturned ==
  fn.done =>
    /\ \A m \in Marks : HasLine(fn.board, m) => fn.winner = m
    /\ ~AnyLine(fn.board) => fn.winner = Null

\* The first complete line of the board in the order rows, columns, diagonals.
FirstLine(board) ==
  CHOOSE k \in 1..8 :
    /\ \E m \in Marks : Complete(board, k, m)
    /\ \A j \in 1..(k - 1) : \A m \in Marks : ~Complete(board, j, m)

\* C5 (amended): the evaluator returns the mark of the first complete line
\* in the order rows, columns, diagonals, which is m when every complete
\* line holds m; without a complete line it returns none.
C5_FirstCompleteLineIsReturned ==
  fn.done =>
    /\ AnyLine(fn.board) =>
         fn.winner = fn.board[BoardLines[FirstLine(fn.board)][1]]
    /\ \A m \in Marks :
         (HasLine(fn.board, m) /\ \A o \in Marks \ {m} : ~HasLine(fn.board, o))
           => fn.winner = m
    /\ ~AnyLine(fn.board) => fn.winner = Null

\* The evaluator was applied to a board whose only complete line is the
\* anti-diagonal.
C5_Witness ==
  /\ fn.done
  /\ fn.winner \in Marks
  /\ Complete(fn.board, 8, fn.winner)
  /\ \A k \in 1..7 : \A m \in Marks : ~Complete(fn.board, k, m)

\* The evaluator was applied to a board with a complete line of each mark.
C5_WitnessTwoMarks ==
  /\ fn.done
  /\ HasLine(fn.board, "X")
  /\ HasLine(fn.board, "O")

\* C6: deriveStatus of a full board without a complete line is a draw
\* (isDraw, no winner, status "Draw"); of a board with a complete line or
\* an empty cell it is no draw.
C6_DrawIffFullWithoutLine ==
  fn.done =>
    /\ (Full(fn.board) /\ ~AnyLine(fn.board))
         => /\ fn.derived.isDraw
            /\ fn.derived.winner = Null
            /\ fn.derived.status = "Draw"
    /\ (AnyLine(fn.board) \/ ~Full(fn.board)) => ~fn.derived.isDraw

\* deriveStatus was applied to a full board without a complete line.
C6_Witness ==
  /\ fn.done
  /\ Full(fn.board)
  /\ ~AnyLine(fn.board)
  /\ fn.derived.isDraw

\* deriveStatus was applied to a full board with a complete line.
C6_WitnessFullWon ==
  /\ fn.done
  /\ Full(fn.board)
  /\ AnyLine(fn.board)

\* C7: after handleReset all nine cells are empty, X is to move, there is
\* no winner and no draw, moves is 0 and the status is "Next player: X".
C7_ResetGivesEmptyGame ==
  [][lastOp'.kind = "reset"
       => /\ \A i \in Cells : game'.board[i] = Null
          /\ game'.nextPlayer = "X"
          /\ game'.winner = Null
          /\ game'.isDraw = FALSE
          /\ game'.moves = 0
          /\ game'.status = "Next player: X"]_vars

\* A reset was made with the backend enabled, after a load or a save had
\* succeeded.
C7_Witness ==
  /\ lastOp.kind = "reset"
  /\ enabled
  /\ apiStatus = "Synced"
  /\ game.nextPlayer = "X"
  /\ Filled(game.board) = 0

\* The game with the marks of seq xs at X's cells and O's cells.
GameAfter(xs, os, turn, win) ==
  [board |-> [i \in Cells |-> IF i \in xs THEN "X" ELSE IF i \in os THEN "O" ELSE Null],
   nextPlayer |-> turn,
   status |-> IF win = Null THEN "Next player: " \o turn ELSE "Winner: " \o win,
   winner |-> win,
   isDraw |-> FALSE,
   moves |-> Cardinality(xs) + Cardinality(os)]

\* From game g a click on cell i is accepted and gives game h.
ClickGives(g, i, h) ==
  (game = g /\ Clicked(i)) => (lastOp'.accepted /\ game' = h)

\* C8: from the empty game the clicks 0, 4, 1, 3, 2 are accepted one by one
\* with marks X, O, X, O, X and end in winner X, no draw, 5 moves and status
\* "Winner: X"; after that no click changes the game.
C8_TopRowGame ==
  [][/\ ClickGives(GameAfter({}, {}, "X", Null), 0, GameAfter({0}, {}, "O", Null))
     /\ ClickGives(GameAfter({0}, {}, "O", Null), 4, GameAfter({0}, {4}, "X", Null))
     /\ ClickGives(GameAfter({0}, {4}, "X", Null), 1, GameAfter({0, 1}, {4}, "O", Null))
     /\ ClickGives(GameAfter({0, 1}, {4}, "O", Null), 3,
                   GameAfter({0, 1}, {3, 4}, "X", Null))
     /\ ClickGives(GameAfter({0, 1}, {3, 4}, "X", Null), 2,
                   GameAfter({0, 1, 2}, {3, 4}, "O", "X"))
     /\ (game = GameAfter({0, 1, 2}, {3, 4}, "O", "X") /\ lastOp'.kind = "click")
          => (~lastOp'.accepted /\ game' = game)]_vars

\* The fifth click, on cell 2, was accepted and X has won with the top row.
C8_Witness ==
  /\ lastOp = [kind |-> "click", index |-> 2, accepted |-> TRUE]
  /\ \A i \in Cells : game.board[i] = (IF i <= 2 THEN "X" ELSE IF i <= 4 THEN "O" ELSE Null)
  /\ game.winner = "X"
  /\ ~game.isDraw
  /\ game.moves = 5
  /\ game.status = "Winner: X"

\* A click on an empty cell after the top-row win was ignored.
C8_WitnessClickAfterWin ==
  /\ lastOp.kind = "click"
  /\ ~lastOp.accepted
  /\ game = GameAfter({0, 1, 2}, {3, 4}, "O", "X")
  /\ game.board[lastOp.index] = Null

\* C9: while the component is mounted, a load or a save that ends in a
\* network error or a non-ok response leaves apiStatus at "Offline".
C9_FailureShowsOffline ==
  [][(mounted /\ lastOp'.kind \in {"load", "saved"} /\ lastOp'.failed)
       => apiStatus' = "Offline"]_vars

\* The part of C9 about saves: a failed save leaves apiStatus at "Offline".
C9_FailedSaveShowsOffline ==
  [][(mounted /\ lastOp'.kind = "saved" /\ lastOp'.failed)
       => apiStatus' = "Offline"]_vars

\* C10: a load that ends in a network error or a non-ok response makes
\* loadLatest return null and leaves the game state as it was, also when the
\* effect run that started it was cleaned up meanwhile; with the backend
\* disabled loadLatest returns null and no load ever completes.
C10_FailedLoadKeepsGame ==
  [][/\ (lastOp'.kind = "load" /\ lastOp'.failed)
          => (lastOp'.isNull /\ ~lastOp'.applied /\ game' = game)
     /\ (lastOp'.kind = "staleLoad" /\ lastOp'.failed) => game' = game
     /\ lastOp'.kind \in {"load", "staleLoad"} => enabled
     /\ \A r \in LoadResponses : loadLatest(FALSE, r) = JNull]_vars

\* A load failed after the player had made a move.
C10_Witness ==
  /\ lastOp.kind = "load"
  /\ lastOp.failed
  /\ lastOp.isNull
  /\ ~lastOp.applied
  /\ game.moves > 0
  /\ apiStatus = "Online (no saved game)"

\* C11 as stated, for the saves of a burst: the save the timeout issues
\* carries the current game, and none is issued when one was already issued
\* since the game last changed.
C11_OneSavePerBurst ==
  [][lastOp'.kind = "timer"
       => (saveState # "clean" /\ lastOp'.body = saveBody(game))]_vars

\* The parts of C11 that hold: every change of the game leaves exactly the
\* timeout armed that closes over the new game, and a save carries the game
\* of the moment it is issued.
C11_ChangeRearmsAndSaveIsCurrent ==
  [][/\ (enabled /\ game' # game) => (timerArmed' /\ timerGame' = game')
     /\ lastOp'.kind = "timer" => lastOp'.body = saveBody(game)]_vars

\* C12: in every state of the remote sync (any apiStatus, load outstanding
\* or not, timeout armed or not, saves in flight or not) a click is accepted
\* exactly when its cell is empty and the game is not concluded, an accepted
\* click places the mark of the player to move, and a reset always gives the
\* empty game.
C12_SyncNeverBlocksPlay ==
  [][/\ \A i \in Cells :
          Clicked(i) =>
            /\ lastOp'.accepted = (game.board[i] = Null /\ ~Concluded(game))
            /\ lastOp'.accepted => game'.board[i] = game.nextPlayer
     /\ lastOp'.kind = "reset" => game' = createEmptyGameState]_vars

\* A move was accepted while the status was "Saving...", a load was
\* outstanding and a save was in flight.
C12_Witness ==
  /\ lastOp.kind = "click"
  /\ lastOp.accepted
  /\ apiStatus = "Saving..."
  /\ liveLoad
  /\ timerArmed
  /\ Len(saves) > 0

\* C13: without a base URL no load and no save is ever issued or answered,
\* no timeout is ever armed and apiStatus stays "Offline".
C13_DisabledMeansNoSync ==
  ~enabled =>
    /\ ~liveLoad
    /\ staleLoads = 0
    /\ ~timerArmed
    /\ saves = <<>>
    /\ apiStatus = "Offline"
    /\ lastOp.kind \notin {"load", "staleLoad", "timer", "saved"}

\* Without a base URL a move was made after a reset.
C13_Witness ==
  /\ ~enabled
  /\ lastOp.kind = "click"
  /\ lastOp.accepted
  /\ game.moves >= 2
  /\ saveState = "dirty"

\* C14 as stated: no save is issued while setGame was never called since
\* the component mounted.
C14_NoSaveWithoutChange ==
  [][lastOp'.kind = "timer" => saveState # "initial"]_vars

\* The response of the step's load, live or cancelled, holds a game.
LoadedAGame ==
  \/ lastOp'.kind = "load" /\ lastOp'.applied
  \/ lastOp'.kind = "staleLoad" /\ lastOp'.isGame

\* The games the load effect makes of the responses that hold one.
LoadableGames ==
  {loadedGame(loadLatest(TRUE, r)) :
     r \in {q \in LoadResponses : loadedIsGame(loadLatest(TRUE, q))}}

\* C15 as stated, while the component stays mounted: the game changes only
\* by an accepted move, a reset or a load that holds a 9-cell board; a load
\* response without such a board leaves the game and sets apiStatus to
\* "Online (no saved game)"; a load response with one puts the loaded game
\* in place of the current one.
C15_LoadReplacesOrReportsNoGame ==
  [][mounted' =>
       /\ game' # game =>
            \/ lastOp'.kind = "click" /\ lastOp'.accepted
            \/ lastOp'.kind = "reset"
            \/ lastOp'.kind = "load" /\ lastOp'.applied
       /\ (lastOp'.kind \in {"load", "staleLoad"} /\ ~LoadedAGame)
            => (game' = game /\ apiStatus' = "Online (no saved game)")
       /\ LoadedAGame => game' \in LoadableGames]_vars

\* The part of C15 that holds: the same for the responses to the load of
\* the latest effect run only.
C15_LiveLoadReplacesOrReportsNoGame ==
  [][/\ game' # game =>
          \/ lastOp'.kind = "click" /\ lastOp'.accepted
          \/ lastOp'.kind = "reset"
          \/ lastOp'.kind = "load" /\ lastOp'.applied
     /\ (lastOp'.kind = "load" /\ ~lastOp'.applied)
          => (game' = game /\ apiStatus' = "Online (no saved game)")
     /\ (lastOp'.kind = "load" /\ lastOp'.applied)
          => (game' \in LoadableGames /\ apiStatus' = "Synced")]_vars

\* C16: after teardown no timeout is armed and no load is live, no step
\* issues a save, no step (a late load response among them) changes the
\* game or apiStatus, and teardown itself leaves the saves in flight, which
\* are answered later.
C16_TeardownStopsSyncButNotSaves ==
  [][/\ lastOp'.kind = "unmount"
          => (saves' = saves /\ ~timerArmed' /\ ~liveLoad')
     /\ ~mounted
          => /\ lastOp'.kind \in {"staleLoad", "saved"}
             /\ game' = game
             /\ apiStatus' = apiStatus
             /\ ~timerArmed'
             /\ ~liveLoad'
             /\ Len(saves') <= Len(saves)
             /\ lastOp'.kind = "saved" => Len(saves') = Len(saves) - 1]_vars

\* After teardown the answer to a save that was in flight arrived, and a
\* cancelled load is still outstanding.
C16_Witness ==
  /\ ~mounted
  /\ lastOp.kind = "saved"
  /\ staleLoads > 0

\* After teardown the response to a cancelled load that holds a game arrived.
C16_WitnessLateLoad ==
  /\ ~mounted
  /\ lastOp.kind = "staleLoad"
  /\ lastOp.isGame

\* The marks m on the board.
Count(board, m) == Cardinality({i \in Cells : board[i] = m})

\* C17: X has as many marks as O or one more, and X is to move exactly when
\* the counts are equal, that is when moves is even.
C17_TurnFollowsMarkCounts ==
  /\ Count(game.board, "X") - Count(game.board, "O") \in {0, 1}
  /\ (game.nextPlayer = "X") = (Count(game.board, "X") = Count(game.board, "O"))
  /\ (game.nextPlayer = "X") = (game.moves % 2 = 0)
  /\ game.nextPlayer \in Marks

\* O is to move on a board with three X and two O.
C17_Witness ==
  /\ lastOp.kind = "click"
  /\ lastOp.accepted
  /\ Count(game.board, "X") = 3
  /\ Count(game.board, "O") = 2
  /\ game.nextPlayer = "O"

\* C18: the board never holds a complete line of X and one of O, and a
\* winner is the player who moved last, not the one to move.
C18_OneWinnerWhoMovedLast ==
  /\ ~(HasLine(game.board, "X") /\ HasLine(game.board, "O"))
  /\ game.winner \in Marks
       => /\ game.winner # game.nextPlayer
          /\ HasLine(game.board, game.winner)
          /\ lastOp.kind = "click" /\ lastOp.accepted
               => game.board[lastOp.index] = game.winner

\* O has just won.
C18_Witness ==
  /\ lastOp.kind = "click"
  /\ lastOp.accepted
  /\ game.winner = "O"
  /\ game.nextPlayer = "X"

\* C19: moves never exceeds 9, every accepted move adds one to it, a game
\* with 9 moves is concluded, a concluded game has at least 5, a game that
\* is not concluded has an empty cell to play, and a concluded game accepts
\* no click.
C19_GameEndsWithinNineMoves ==
  [][/\ game'.moves <= 9
     /\ game'.moves = 9 => Concluded(game')
     /\ Concluded(game') => game'.moves >= 5
     /\ ~Concluded(game') => \E i \in Cells : game'.board[i] = Null
     /\ (lastOp'.kind = "click" /\ lastOp'.accepted)
          => (~Concluded(game) /\ game'.moves = game.moves + 1)
     /\ (lastOp'.kind = "click" /\ Concluded(game))
          => (~lastOp'.accepted /\ game' = game)]_vars

\* The ninth move ended the game in a draw.
C19_Witness ==
  /\ lastOp.kind = "click"
  /\ lastOp.accepted
  /\ game.moves = 9
  /\ game.isDraw

\* The fifth move ended the game.
C19_WitnessFiveMoves ==
  /\ lastOp.kind = "click"
  /\ lastOp.accepted
  /\ game.moves = 5
  /\ game.winner = "X"

=============================================================================
